---- MODULE Spec2Model ----
(***************************************************************************)
(* A state-machine model of six parts of the wallet front-end:             *)
(*   - SignForm (components/tx/SignOrExecuteForm/SignForm.tsx): the       *)
(*     submit button, handleSubmit and its two continuations;             *)
(*   - ReviewOwner: the transaction-building effect, the shared          *)
(*     SafeTxContext and the confirmation callback;                       *)
(*   - the social login flow exercised by the SocialWalletService tests,  *)
(*     with MockMPCCoreKit as the SDK;                                     *)
(*   - Navigation, ChooseRecoveryMethodModal and AddressBookInput, each    *)
(*     with the hooks and the parent that feed it.                         *)
(* Every asynchronous function is cut at its awaits: the part before an    *)
(* await is one action, each continuation is another.                      *)
(***************************************************************************)
EXTENDS Integers, Sequences, FiniteSets, TLC

VARIABLES
    \* ---- SignForm: props and hook results
    safeTx,          \* the safeTx prop (SafeTxContext value), NoTx when undefined
    disableSubmit,   \* the disableSubmit prop
    isOwner,         \* useIsSafeOwner()
    isOk,            \* the flag CheckWallet hands to its child
    \* ---- SignForm: component state
    isSubmittable,   \* useState(true)
    submitError,     \* useState<Error | undefined>()
    \* ---- SignForm: what it did and shows
    calls,           \* the signTx calls made so far, in order; the index is the call id
    effects,         \* every call handleSubmit made, in program order
    view,            \* the last render
    clickLog,        \* the outcome of every click on the Submit button
    \* ---- ReviewOwner
    params,          \* the flow params {newOwner, removedOwner, threshold}
    builds,          \* the transaction builds whose promise is still pending
    nBuilds,         \* how many builds the effect has started
    safeTxError,     \* the error held by SafeTxContext
    \* ---- social login
    fixture,         \* the arguments of new MockMPCCoreKit(...) and the values the jest mocks return
    sdk,             \* the MockMPCCoreKit object: status and state.userInfo
    loginTimer,      \* whether the setTimeout of loginWithOauth is pending
    walletState,     \* SocialWalletService.walletState
    task,            \* the service call in progress and the await it stands at
    mockCalls,       \* how often mockOnConnect and commitChanges have been called
    opsLog,          \* the service methods called so far, in order
    returned,        \* what each finished service call resolved to or rejected with
    stateTrace,      \* the values walletState has taken, in order
    factorKeys,      \* the keys passed to inputFactorKey since the last login resolved
    \* ---- Navigation
    navItems,        \* the badge field of each item of the shared navItems array
    nav,             \* each mounted Navigation: its hook values and its last render
    \* ---- ChooseRecoveryMethodModal
    modal,           \* the recoveryMethod field of the form and whether the dialog is open
    modalLog,        \* the user's actions on the modal and the calls each one made
    \* ---- AddressBookInput
    abi,             \* the address book, the canAdd prop, the field value and the component state
    abiView          \* the last render of AddressBookInput

signVars == <<safeTx, disableSubmit, isOwner, isOk, isSubmittable, submitError,
              calls, effects, view, clickLog>>
reviewVars == <<params, builds, nBuilds, safeTxError>>
socialVars == <<fixture, sdk, loginTimer, walletState, task, mockCalls,
                opsLog, returned, stateTrace, factorKeys>>
uiVars == <<navItems, nav, modal, modalLog, abi, abiView>>
vars == <<signVars, reviewVars, socialVars, uiVars>>

-----------------------------------------------------------------------------
(* Bounds *)

\* how many times the Submit button is clicked
MaxClicks == 2
\* how many times the ReviewOwner effect runs
MaxBuilds == 2
\* how many calls of the social login service are made
MaxOps == 2

-----------------------------------------------------------------------------
(* Values *)

NoTx == "undefined"
NoError == "undefined"
NoName == "undefined"
NoOwner == "undefined"

\* (err as Error).message of the errors signTx and the builders reject with
ErrorMessages == {"User rejected signing", "Network error"}

\* Errors._804
Errors_804 == 804

\* the props SignForm passes on to signTx unchanged
txId == "txId"
origin == "origin"

\* useSafeInfo().safe
safe == [chainId |-> "5", threshold |-> 2, owners |-> <<"0xOld", "0xOther">>]

NewOwners == {[address |-> "0xA", name |-> NoName],
              [address |-> "0xA", name |-> "Alice"]}
RemovedOwners == {NoOwner, "0xOld"}
Thresholds == {1, 2}
Params == [newOwner : NewOwners, removedOwner : RemovedOwners, threshold : Thresholds]

\* createSwapOwnerTx({newOwnerAddress, oldOwnerAddress}): the transaction it resolves to
createSwapOwnerTx(newOwnerAddress, oldOwnerAddress) ==
    "swapOwner(" \o oldOwnerAddress \o "->" \o newOwnerAddress \o ")"

\* createAddOwnerTx({ownerAddress, threshold}): the transaction it resolves to
createAddOwnerTx(ownerAddress, threshold) ==
    "addOwnerWithThreshold(" \o ownerAddress \o "," \o ToString(threshold) \o ")"

\* the transaction the effect's promise resolves to for the params p
BuildTx(p) ==
    IF p.removedOwner # NoOwner
    THEN createSwapOwnerTx(p.newOwner.address, p.removedOwner)
    ELSE createAddOwnerTx(p.newOwner.address, p.threshold)

Txs == {BuildTx(p) : p \in Params}

-----------------------------------------------------------------------------
(* Social login: values *)

\* COREKIT_STATUS, as far as the mock uses it
COREKIT_STATUS == {"INITIALIZED", "REQUIRED_SHARE", "LOGGED_IN"}

\* MPCWalletState
MPCWalletState == {"NOT_INITIALIZED", "AUTHENTICATING", "MANUAL_RECOVERY", "READY"}

NoUserInfo == "undefined"
NoFactor == "undefined"

\* factor keys as the hex strings getWebBrowserFactor and recoverFactor return
FactorHex == {"01", "02"}

\* new BN(hex, 'hex')
BN(hex) == CASE hex = "01" -> 1
             [] hex = "02" -> 2

\* the default of the constructor's expectedFactorKey: new BN(-1)
DefaultExpectedFactorKey == 0 - 1

\* the passwords recoverAccountWithPassword is called with
Passwords == {"right", "wrong"}

\* the fixtures of the tests: the mock's constructor arguments, what
\* getWebBrowserFactor resolves to, and what recoverFactor resolves to for the
\* right password
Fixtures ==
    [stateAfterLogin : {"LOGGED_IN", "REQUIRED_SHARE"},
     userInfoAfterLogin : {"test@test.com"},
     expectedFactorKey : {DefaultExpectedFactorKey} \cup {BN(h) : h \in FactorHex},
     deviceFactor : {NoFactor} \cup FactorHex,
     passwordFactor : FactorHex]

Idle == [name |-> "none", pc |-> "idle"]

\* new SocialWalletService(new MockMPCCoreKit(...)) for the fixture f
ServiceConstructed(f) ==
    /\ fixture = f
    /\ sdk = [status |-> "INITIALIZED", userInfo |-> NoUserInfo]
    /\ loginTimer = FALSE
    /\ walletState = "NOT_INITIALIZED"
    /\ task = Idle
    /\ mockCalls = [onConnect |-> 0, commitChanges |-> 0]
    /\ opsLog = <<>>
    /\ returned = <<>>
    /\ stateTrace = <<"NOT_INITIALIZED">>
    /\ factorKeys = {}

\* the fixture of the first test, for the specifications that make no login
DefaultFixture ==
    [stateAfterLogin |-> "LOGGED_IN", userInfoAfterLogin |-> "test@test.com",
     expectedFactorKey |-> DefaultExpectedFactorKey, deviceFactor |-> NoFactor,
     passwordFactor |-> "01"]

\* a sign form that has rendered once and a ReviewOwner that is not mounted
FormsUnused ==
    /\ safeTx = NoTx
    /\ disableSubmit = FALSE
    /\ isOwner = TRUE
    /\ isOk = TRUE
    /\ isSubmittable = TRUE
    /\ submitError = NoError
    /\ calls = <<>>
    /\ effects = <<>>
    /\ clickLog = <<>>
    /\ view = [buttonDisabled |-> TRUE, message |-> "none"]
    /\ params \in {[newOwner |-> [address |-> "0xA", name |-> NoName],
                    removedOwner |-> NoOwner, threshold |-> 1]}
    /\ builds = {}
    /\ nBuilds = 0
    /\ safeTxError = NoError

-----------------------------------------------------------------------------
(* Navigation: values.  A path "/a/b" is the sequence of its segments,      *)
(* <<"a", "b">>.                                                            *)

\* the largest length of the transaction queue page and of the recovery queue
MaxQueued == 1

\* the routes of @/config/routes the sidebar uses
AppRoutes ==
    [home         |-> <<"home">>,
     transactions |-> [history |-> <<"transactions", "history">>,
                       queue   |-> <<"transactions", "queue">>],
     settings     |-> [setup |-> <<"settings", "setup">>]]

ImplementationVersionState ==
    [UP_TO_DATE |-> "UP_TO_DATE", OUTDATED |-> "OUTDATED", UNKNOWN |-> "UNKNOWN"]

ImplementationVersionStates ==
    {ImplementationVersionState.UP_TO_DATE,
     ImplementationVersionState.OUTDATED,
     ImplementationVersionState.UNKNOWN}

\* the navItems array of ./config as the module exports it: no badge is set
navItemsConfig ==
    << [href |-> AppRoutes.home,                 label |-> "Home",
        icon |-> TRUE, badge |-> "undefined"],
       [href |-> AppRoutes.transactions.history, label |-> "Transactions",
        icon |-> TRUE, badge |-> "undefined"],
       [href |-> AppRoutes.settings.setup,       label |-> "Settings",
        icon |-> TRUE, badge |-> "undefined"] >>

\* the places that render a Navigation; all of them import the same navItems
Navigations == {"sidebar", "drawer"}

\* what useTxQueue() returns: page is undefined until the queue has loaded
TxQueues ==
    {[hasPage |-> FALSE, results |-> 0]}
        \cup {[hasPage |-> TRUE, results |-> n] : n \in 0..MaxQueued}

Pathnames == {AppRoutes.home, AppRoutes.transactions.queue, AppRoutes.settings.setup}

\* the values the hooks of one Navigation return
NavInputs ==
    [safe          : [implementationVersionState : ImplementationVersionStates],
     txQueue       : TxQueues,
     recoveryQueue : 0..MaxQueued,
     pathname      : Pathnames]

NavUnmounted ==
    [mounted |-> FALSE,
     hooks   |-> [safe          |-> [implementationVersionState |->
                                          ImplementationVersionState.UNKNOWN],
                  txQueue       |-> [hasPage |-> FALSE, results |-> 0],
                  recoveryQueue |-> 0,
                  pathname      |-> AppRoutes.home],
     view    |-> <<>>]

\* the module has been loaded and no Navigation has rendered yet
NavigationLoaded ==
    /\ navItems = navItemsConfig
    /\ nav = [i \in Navigations |-> NavUnmounted]

-----------------------------------------------------------------------------
(* ChooseRecoveryMethodModal: values *)

\* the largest number of things the user does with the modal
MaxModalEvents == 3

SYGNUM_WAITLIST_LINK == "https://wn2n6ocviur.typeform.com/to/cJbJW0KR"
COINCOVER_WAITLIST_LINK == "https://wn2n6ocviur.typeform.com/to/ijqSzOkr"

RecoveryMethod ==
    [SelfCustody |-> "SelfCustody", Sygnum |-> "Sygnum", Coincover |-> "Coincover"]

RecoveryMethods ==
    {RecoveryMethod.SelfCustody, RecoveryMethod.Sygnum, RecoveryMethod.Coincover}

\* useForm's defaultValues, in a dialog the parent has opened
ModalMounted ==
    /\ modal = [recoveryMethod |-> RecoveryMethod.SelfCustody, open |-> TRUE]
    /\ modalLog = <<>>

-----------------------------------------------------------------------------
(* AddressBookInput: values.  A string is the sequence of its characters.   *)

OwnerAddress == <<"0", "x", "A">>
FriendAddress == <<"0", "x", "B">>
StrangerAddress == <<"0", "x", "C">>

\* the value of a field nobody has set; includes() reads it as the text
\* "undefined", which no address contains
Undefined == <<"undefined">>

\* the texts the user can have typed
TypedValues == {<<>>, <<"0", "x">>, OwnerAddress, FriendAddress, StrangerAddress}

EntryName(address) == IF address = OwnerAddress THEN "Alice" ELSE "Bob"

\* what useAddressBook() can return: a mapping from address to name
AddressBooks ==
    {[address \in S |-> EntryName(address)] : S \in SUBSET {OwnerAddress, FriendAddress}}

\* s.includes(sub)
includes(s, sub) ==
    \E i \in 0..(Len(s) - Len(sub)) : SubSeq(s, i + 1, i + Len(sub)) = sub

-----------------------------------------------------------------------------
(* Navigation *)

BoolText(b) == IF b THEN "true" ELSE "false"

\* pathname.split('/')[1]: the text between the first and the second slash
getSubdirectory(pathname) == (<<"">> \o pathname)[2]

hasQueuedTxs(hooks) == hooks.txQueue.hasPage /\ hooks.txQueue.results # 0

hasRecoveryTxs(hooks) == hooks.recoveryQueue # 0

\* a getRoute that looks at the transaction queue only
getRoute_QueuedOnly(hooks, href) ==
    IF href = AppRoutes.transactions.history /\ hasQueuedTxs(hooks)
    THEN AppRoutes.transactions.queue
    ELSE href

getRoute(hooks, href) ==
    IF /\ href = AppRoutes.transactions.history
       /\ (hasQueuedTxs(hooks) \/ hasRecoveryTxs(hooks))
    THEN AppRoutes.transactions.queue
    ELSE href

\* a badge that is raised for an outdated Safe and never lowered
setBadge_OnlyRaises(items, hooks) ==
    LET found == {k \in 1..Len(items) : items[k].href = AppRoutes.settings.setup}
    IN  IF found = {}
            \/ hooks.safe.implementationVersionState # ImplementationVersionState.OUTDATED
        THEN items
        ELSE [items EXCEPT ![CHOOSE k \in found : \A j \in found : k <= j].badge = "true"]

\* navItems.find(...) and the assignment to the badge of the item it found
setBadge(items, hooks) ==
    LET found == {k \in 1..Len(items) : items[k].href = AppRoutes.settings.setup}
    IN  IF found = {}
        THEN items
        ELSE [items EXCEPT ![CHOOSE k \in found : \A j \in found : k <= j].badge =
                  BoolText(hooks.safe.implementationVersionState
                               = ImplementationVersionState.OUTDATED)]

\* navItems.map(...): one list item per navigation item
SidebarList(items, hooks) ==
    [k \in 1..Len(items) |->
        [key      |-> items[k].href,
         selected |-> getSubdirectory(hooks.pathname) = getSubdirectory(items[k].href),
         pathname |-> getRoute(hooks, items[k].href),
         badge    |-> IF items[k].icon THEN items[k].badge ELSE "no icon",
         label    |-> items[k].label]]

\* a Navigation mounts, or one of its hooks returns a new value: it renders
Navigation ==
    \E i \in Navigations, hooks \in NavInputs :
        LET items == setBadge(navItems, hooks) IN
        /\ navItems' = items
        /\ nav' = [nav EXCEPT ![i] = [mounted |-> TRUE,
                                      hooks   |-> hooks,
                                      view    |-> SidebarList(items, hooks)]]
        /\ UNCHANGED <<modal, modalLog, abi, abiView>>
        /\ UNCHANGED <<signVars, reviewVars, socialVars>>

NavigationUnmounts ==
    \E i \in Navigations :
        /\ nav[i].mounted
        /\ nav' = [nav EXCEPT ![i] = NavUnmounted]
        /\ UNCHANGED <<navItems, modal, modalLog, abi, abiView>>
        /\ UNCHANGED <<signVars, reviewVars, socialVars>>

-----------------------------------------------------------------------------
(* ChooseRecoveryMethodModal.  The Track wrappers are components of their   *)
(* own; modalLog holds what the user did and the calls this component's     *)
(* handlers made for it.                                                    *)

ModalEntry(id, op, arg) == [id |-> id, op |-> op, arg |-> arg]

UserOps == {"select", "confirm", "close"}

\* the number the next thing the user does gets
NextModalEvent == Cardinality({k \in 1..Len(modalLog) : modalLog[k].op \in UserOps}) + 1

currentType == modal.recoveryMethod

trackOptionChoice(id, value) ==
    <<ModalEntry(id, "trackEvent", "SELECT_RECOVERY_METHOD:" \o value)>>

\* a waitlist link that is the same for both partners
WaitlistLink_AlwaysSygnum(type) == SYGNUM_WAITLIST_LINK

\* the href of the "Join waitlist" link
WaitlistLink(type) ==
    IF type = RecoveryMethod.Sygnum THEN SYGNUM_WAITLIST_LINK ELSE COINCOVER_WAITLIST_LINK

\* what the modal renders under the options
ConfirmArea(type) ==
    IF type = RecoveryMethod.SelfCustody
    THEN [shows |-> "Set up", href |-> "none"]
    ELSE [shows |-> "Join waitlist", href |-> WaitlistLink(type)]

\* the user picks another radio button
SelectMethod ==
    \E value \in RecoveryMethods :
        /\ modal.open
        /\ NextModalEvent <= MaxModalEvents
        /\ value # currentType
        /\ modal' = [modal EXCEPT !.recoveryMethod = value]
        /\ modalLog' = modalLog
                         \o <<ModalEntry(NextModalEvent, "select", value)>>
                         \o trackOptionChoice(NextModalEvent, value)
        /\ UNCHANGED <<navItems, nav, abi, abiView>>
        /\ UNCHANGED <<signVars, reviewVars, socialVars>>

\* the user clicks the button under the options
ClickConfirm ==
    /\ modal.open
    /\ NextModalEvent <= MaxModalEvents
    /\ LET area == ConfirmArea(currentType)
           id   == NextModalEvent
       IN  modalLog' = modalLog
                        \o <<ModalEntry(id, "confirm", currentType)>>
                        \o (IF area.shows = "Set up"
                            THEN <<ModalEntry(id, "setTxFlow", "UpsertRecoveryFlow"),
                                   ModalEntry(id, "onClose", "")>>
                            ELSE <<ModalEntry(id, "openInNewTab", area.href)>>)
    /\ UNCHANGED <<modal, navItems, nav, abi, abiView>>
    /\ UNCHANGED <<signVars, reviewVars, socialVars>>

\* the user clicks the close icon or outside the dialog
ClickClose ==
    /\ modal.open
    /\ NextModalEvent <= MaxModalEvents
    /\ modalLog' = modalLog \o <<ModalEntry(NextModalEvent, "close", ""),
                                 ModalEntry(NextModalEvent, "onClose", "")>>
    /\ UNCHANGED <<modal, navItems, nav, abi, abiView>>
    /\ UNCHANGED <<signVars, reviewVars, socialVars>>

\* the parent passes another value of the open prop
SetOpen ==
    /\ modal' = [modal EXCEPT !.open = ~modal.open]
    /\ UNCHANGED <<modalLog, navItems, nav, abi, abiView>>
    /\ UNCHANGED <<signVars, reviewVars, socialVars>>

-----------------------------------------------------------------------------
(* AddressBookInput *)

\* Object.entries(addressBook).map(...); the order of the entries plays no part
addressBookEntries(a) ==
    {[label |-> address, name |-> a.addressBook[address]] :
        address \in DOMAIN a.addressBook}

hasVisibleOptions(a) ==
    {entry \in addressBookEntries(a) : includes(entry.label, a.addressValue)} # {}

\* what AddressBookInput renders
AddressBookInputView(a) ==
    [onOpenListClick    |-> hasVisibleOptions(a),
     isAutocompleteOpen |-> a.open,
     onAddressBookClick |-> a.canAdd,
     unknownAddress     |-> a.canAdd,
     entryDialog        |-> IF a.openAddressBook
                            THEN <<[name |-> "", address |-> a.addressValue]>>
                            ELSE <<>>]

AddressBookInputMounted(addressBook, canAdd) ==
    /\ abi = [addressBook     |-> addressBook,
              canAdd          |-> canAdd,
              addressValue    |-> Undefined,
              open            |-> FALSE,
              openAddressBook |-> FALSE]
    /\ abiView = AddressBookInputView(abi)

\* onInputChange: the user types, or picks a suggestion
onInputChange ==
    \E value \in TypedValues :
        /\ value # abi.addressValue
        /\ abi' = [abi EXCEPT !.addressValue = value]
        /\ abiView' = AddressBookInputView(abi')
        /\ UNCHANGED <<navItems, nav, modal, modalLog>>
        /\ UNCHANGED <<signVars, reviewVars, socialVars>>

\* onOpen and onClose of the Autocomplete
SetAutocompleteOpen ==
    \E value \in BOOLEAN :
        /\ value # abi.open
        /\ abi' = [abi EXCEPT !.open = value]
        /\ abiView' = AddressBookInputView(abi')
        /\ UNCHANGED <<navItems, nav, modal, modalLog>>
        /\ UNCHANGED <<signVars, reviewVars, socialVars>>

\* the user clicks the button that opens the list of suggestions
handleOpenAutocomplete ==
    /\ abiView.onOpenListClick
    /\ abi' = [abi EXCEPT !.open = ~abi.open]
    /\ abiView' = AddressBookInputView(abi')
    /\ UNCHANGED <<navItems, nav, modal, modalLog>>
    /\ UNCHANGED <<signVars, reviewVars, socialVars>>

\* the user clicks "add it to your address book"
onAddressBookClick ==
    /\ abiView.onAddressBookClick
    /\ abi' = [abi EXCEPT !.openAddressBook = TRUE]
    /\ abiView' = AddressBookInputView(abi')
    /\ UNCHANGED <<navItems, nav, modal, modalLog>>
    /\ UNCHANGED <<signVars, reviewVars, socialVars>>

\* handleClose of the entry dialog
handleClose ==
    /\ abiView.entryDialog # <<>>
    /\ abi' = [abi EXCEPT !.openAddressBook = FALSE]
    /\ abiView' = AddressBookInputView(abi')
    /\ UNCHANGED <<navItems, nav, modal, modalLog>>
    /\ UNCHANGED <<signVars, reviewVars, socialVars>>

\* useAddressBook() returns another address book
SetAddressBook ==
    \E addressBook \in AddressBooks :
        /\ addressBook # abi.addressBook
        /\ abi' = [abi EXCEPT !.addressBook = addressBook]
        /\ abiView' = AddressBookInputView(abi')
        /\ UNCHANGED <<navItems, nav, modal, modalLog>>
        /\ UNCHANGED <<signVars, reviewVars, socialVars>>

\* the parent passes another value of the canAdd prop
SetCanAdd ==
    /\ abi' = [abi EXCEPT !.canAdd = ~abi.canAdd]
    /\ abiView' = AddressBookInputView(abi')
    /\ UNCHANGED <<navItems, nav, modal, modalLog>>
    /\ UNCHANGED <<signVars, reviewVars, socialVars>>

-----------------------------------------------------------------------------
(* Specifications of the three components, each on its own *)

UiUnused ==
    /\ NavigationLoaded
    /\ ModalMounted
    /\ AddressBookInputMounted([address \in {OwnerAddress} |-> EntryName(address)], FALSE)

InitNavigation ==
    /\ FormsUnused
    /\ ServiceConstructed(DefaultFixture)
    /\ UiUnused

NextNavigation ==
    \/ Navigation
    \/ NavigationUnmounts

SpecNavigation == InitNavigation /\ [][NextNavigation]_vars

InitModal ==
    /\ FormsUnused
    /\ ServiceConstructed(DefaultFixture)
    /\ UiUnused

NextModal ==
    \/ SelectMethod
    \/ ClickConfirm
    \/ ClickClose
    \/ SetOpen

SpecModal == InitModal /\ [][NextModal]_vars

InitAddressBookInput ==
    /\ FormsUnused
    /\ ServiceConstructed(DefaultFixture)
    /\ NavigationLoaded
    /\ ModalMounted
    /\ \E addressBook \in AddressBooks, canAdd \in BOOLEAN :
           AddressBookInputMounted(addressBook, canAdd)

NextAddressBookInput ==
    \/ onInputChange
    \/ SetAutocompleteOpen
    \/ handleOpenAutocomplete
    \/ onAddressBookClick
    \/ handleClose
    \/ SetAddressBook
    \/ SetCanAdd

SpecAddressBookInput == InitAddressBookInput /\ [][NextAddressBookInput]_vars

-----------------------------------------------------------------------------
(* SignForm: render *)

cannotPropose == ~isOwner

\* faulty variants of submitDisabled, each missing one term
submitDisabled_NoInFlightCheck ==
    safeTx = NoTx \/ disableSubmit \/ cannotPropose

submitDisabled_IgnoresDisableSubmit ==
    safeTx = NoTx \/ ~isSubmittable \/ cannotPropose

submitDisabled_IgnoresOwner ==
    safeTx = NoTx \/ ~isSubmittable \/ disableSubmit

submitDisabled ==
    safeTx = NoTx \/ ~isSubmittable \/ disableSubmit \/ cannotPropose

\* the not-an-owner message, else the submit error, else nothing
ErrorShown ==
    IF isSubmittable /\ cannotPropose THEN "notOwner"
    ELSE IF submitError # NoError THEN "submitError" ELSE "none"

\* what the component returns: the button's disabled attribute and the message
Render ==
    [buttonDisabled |-> (~isOk \/ submitDisabled), message |-> ErrorShown]

-----------------------------------------------------------------------------
(* The effects a call makes, as log entries *)

Effect(op, id, arg) == [op |-> op, id |-> id, arg |-> arg]

\* faulty variant: upserts the entry without testing the name
addAddressBookEntryAndSubmit_AlwaysUpsert(id, p) ==
    <<Effect("upsertAddressBookEntry", id,
             safe.chainId \o "," \o p.newOwner.address \o "," \o p.newOwner.name),
      Effect("trackEvent", id, "SETUP.THRESHOLD:" \o ToString(safe.threshold)),
      Effect("trackEvent", id, "SETUP.OWNERS:" \o ToString(Len(safe.owners))),
      Effect("trackEvent", id,
             IF p.removedOwner # NoOwner THEN "CREATE:owner_swap" ELSE "CREATE:owner_add")>>

\* the calls addAddressBookEntryAndSubmit makes, for the params p it closed over
addAddressBookEntryAndSubmit(id, p) ==
    (IF p.newOwner.name # NoName
        THEN <<Effect("upsertAddressBookEntry", id,
                      safe.chainId \o "," \o p.newOwner.address \o "," \o p.newOwner.name)>>
        ELSE <<>>)
    \o <<Effect("trackEvent", id, "SETUP.THRESHOLD:" \o ToString(safe.threshold)),
         Effect("trackEvent", id, "SETUP.OWNERS:" \o ToString(Len(safe.owners))),
         Effect("trackEvent", id,
                IF p.removedOwner # NoOwner THEN "CREATE:owner_swap" ELSE "CREATE:owner_add")>>

\* the onSubmit prop: ReviewOwner passes addAddressBookEntryAndSubmit
onSubmit(id, p) ==
    <<Effect("onSubmit", id, "")>> \o addAddressBookEntryAndSubmit(id, p)

-----------------------------------------------------------------------------
(* SignForm: handleSubmit *)

PendingCalls == {i \in 1..Len(calls) : calls[i].status = "pending"}

\* handleSubmit up to its await: the submit event of the form
handleSubmit ==
    LET id == Len(calls) + 1 IN
    /\ isSubmittable' = FALSE
    /\ submitError' = NoError
    /\ calls' = Append(calls, [tx |-> safeTx, params |-> params,
                               status |-> "pending", error |-> NoError])
    /\ effects' = effects \o <<Effect("setIsSubmittable", id, "false"),
                               Effect("setSubmitError", id, "undefined"),
                               Effect("signTx", id, safeTx \o "," \o txId \o "," \o origin)>>

\* a click on the Submit button: a disabled button dispatches no submit event
ClickSubmit ==
    /\ Len(clickLog) < MaxClicks
    /\ IF view.buttonDisabled
       THEN /\ clickLog' = Append(clickLog, "blocked")
            /\ UNCHANGED <<isSubmittable, submitError, calls, effects>>
       ELSE /\ clickLog' = Append(clickLog, "submitted")
            /\ handleSubmit
    /\ UNCHANGED <<safeTx, disableSubmit, isOwner, isOk, reviewVars, socialVars, uiVars>>
    /\ view' = Render'

\* faulty variant: onSubmit before setTxFlow
handleSubmit_resolved_CallbackFirst(id) ==
    /\ calls[id].status = "pending"
    /\ calls' = [calls EXCEPT ![id].status = "resolved"]
    /\ effects' = effects \o onSubmit(id, calls[id].params)
                          \o <<Effect("setTxFlow", id, "undefined")>>
    /\ UNCHANGED <<isSubmittable, submitError>>

\* faulty variant: the form is made submittable again after a success
handleSubmit_resolved_RestoresSubmittable(id) ==
    /\ calls[id].status = "pending"
    /\ calls' = [calls EXCEPT ![id].status = "resolved"]
    /\ effects' = effects \o <<Effect("setTxFlow", id, "undefined")>>
                          \o onSubmit(id, calls[id].params)
                          \o <<Effect("setIsSubmittable", id, "true")>>
    /\ isSubmittable' = TRUE
    /\ UNCHANGED submitError

\* the continuation after `await signTx(...)` resolved: lines 39 and 47
handleSubmit_resolved(id) ==
    /\ calls[id].status = "pending"
    /\ calls' = [calls EXCEPT ![id].status = "resolved"]
    /\ effects' = effects \o <<Effect("setTxFlow", id, "undefined")>>
                          \o onSubmit(id, calls[id].params)
    /\ UNCHANGED <<isSubmittable, submitError>>

\* faulty variant: the catch block without setIsSubmittable(true)
handleSubmit_rejected_StaysDisabled(id, err) ==
    /\ calls[id].status = "pending"
    /\ calls' = [calls EXCEPT ![id].status = "rejected", ![id].error = err]
    /\ effects' = effects \o <<Effect("logError", id, ToString(Errors_804) \o ":" \o err),
                               Effect("setSubmitError", id, err)>>
    /\ submitError' = err
    /\ UNCHANGED isSubmittable

\* the catch block after `await signTx(...)` rejected: lines 40 to 45
handleSubmit_rejected(id, err) ==
    /\ calls[id].status = "pending"
    /\ calls' = [calls EXCEPT ![id].status = "rejected", ![id].error = err]
    /\ effects' = effects \o <<Effect("logError", id, ToString(Errors_804) \o ":" \o err),
                               Effect("setIsSubmittable", id, "true"),
                               Effect("setSubmitError", id, err)>>
    /\ isSubmittable' = TRUE
    /\ submitError' = err

SignTxResolves ==
    \E id \in PendingCalls :
        /\ handleSubmit_resolved(id)
        /\ UNCHANGED <<safeTx, disableSubmit, isOwner, isOk, clickLog, reviewVars, socialVars, uiVars>>
        /\ view' = Render'

SignTxRejects ==
    \E id \in PendingCalls, err \in ErrorMessages :
        /\ handleSubmit_rejected(id, err)
        /\ UNCHANGED <<safeTx, disableSubmit, isOwner, isOk, clickLog, reviewVars, socialVars, uiVars>>
        /\ view' = Render'

-----------------------------------------------------------------------------
(* SignForm: the parent and the hooks hand it new values, and it renders again *)

SetSafeTx ==
    \E tx \in Txs \cup {NoTx} :
        /\ tx # safeTx
        /\ safeTx' = tx
        /\ UNCHANGED <<disableSubmit, isOwner, isOk, isSubmittable, submitError,
                       calls, effects, clickLog, reviewVars, socialVars, uiVars>>
        /\ view' = Render'

SetDisableSubmit ==
    /\ disableSubmit' = ~disableSubmit
    /\ UNCHANGED <<safeTx, isOwner, isOk, isSubmittable, submitError,
                   calls, effects, clickLog, reviewVars, socialVars, uiVars>>
    /\ view' = Render'

SetIsOwner ==
    /\ isOwner' = ~isOwner
    /\ UNCHANGED <<safeTx, disableSubmit, isOk, isSubmittable, submitError,
                   calls, effects, clickLog, reviewVars, socialVars, uiVars>>
    /\ view' = Render'

SetIsOk ==
    /\ isOk' = ~isOk
    /\ UNCHANGED <<safeTx, disableSubmit, isOwner, isSubmittable, submitError,
                   calls, effects, clickLog, reviewVars, socialVars, uiVars>>
    /\ view' = Render'

-----------------------------------------------------------------------------
(* Specification of the sign form under an arbitrary parent *)

InitSign ==
    /\ safeTx \in Txs \cup {NoTx}
    /\ disableSubmit \in BOOLEAN
    /\ isOwner \in BOOLEAN
    /\ isOk \in BOOLEAN
    /\ isSubmittable = TRUE
    /\ submitError = NoError
    /\ calls = <<>>
    /\ effects = <<>>
    /\ clickLog = <<>>
    /\ view = Render
    /\ params \in Params
    /\ builds = {}
    /\ nBuilds = 0
    /\ safeTxError = NoError
    /\ ServiceConstructed(DefaultFixture)
    /\ UiUnused

NextSign ==
    \/ ClickSubmit
    \/ SignTxResolves
    \/ SignTxRejects
    \/ SetSafeTx
    \/ SetDisableSubmit
    \/ SetIsOwner
    \/ SetIsOk

SpecSign == InitSign /\ [][NextSign]_vars

-----------------------------------------------------------------------------
(* ReviewOwner: the effect that builds the transaction *)

\* the effect body: start a build for the params p and leave its promise pending
useEffect(p) ==
    /\ nBuilds' = nBuilds + 1
    /\ builds' = builds \cup {[id |-> nBuilds + 1, inputs |-> p]}

\* the flow hands ReviewOwner new params: a dependency changed, the effect runs again
ChangeParams ==
    \E p \in Params :
        /\ p # params
        /\ nBuilds < MaxBuilds
        /\ params' = p
        /\ useEffect(p)
        /\ UNCHANGED <<signVars, safeTxError, socialVars, uiVars>>

\* variant with a generation check: only the newest build may write
promise_then_LatestOnly(b) ==
    /\ builds' = builds \ {b}
    /\ safeTx' = IF b.id = nBuilds THEN BuildTx(b.inputs) ELSE safeTx
    /\ UNCHANGED <<params, nBuilds, safeTxError>>

\* promise.then(setSafeTx): the build b resolved
promise_then(b) ==
    /\ builds' = builds \ {b}
    /\ safeTx' = BuildTx(b.inputs)
    /\ UNCHANGED <<params, nBuilds, safeTxError>>

\* .catch(setSafeTxError): the build b rejected
promise_catch(b, err) ==
    /\ builds' = builds \ {b}
    /\ safeTxError' = err
    /\ UNCHANGED <<params, nBuilds, safeTx>>

BuildResolves ==
    \E b \in builds :
        /\ promise_then(b)
        /\ UNCHANGED <<disableSubmit, isOwner, isOk, isSubmittable, submitError,
                       calls, effects, clickLog, socialVars, uiVars>>
        /\ view' = Render'

BuildRejects ==
    \E b \in builds, err \in ErrorMessages :
        /\ promise_catch(b, err)
        /\ UNCHANGED <<signVars, socialVars, uiVars>>

-----------------------------------------------------------------------------
(* Specification of ReviewOwner with the sign form it renders *)

InitReview ==
    /\ safeTx = NoTx
    /\ disableSubmit = FALSE
    /\ isOwner = TRUE
    /\ isOk = TRUE
    /\ isSubmittable = TRUE
    /\ submitError = NoError
    /\ calls = <<>>
    /\ effects = <<>>
    /\ clickLog = <<>>
    /\ view = Render
    /\ params \in Params
    /\ builds = {[id |-> 1, inputs |-> params]}
    /\ nBuilds = 1
    /\ safeTxError = NoError
    /\ ServiceConstructed(DefaultFixture)
    /\ UiUnused

NextReview ==
    \/ ChangeParams
    \/ BuildResolves
    \/ BuildRejects
    \/ ClickSubmit
    \/ SignTxResolves
    \/ SignTxRejects

SpecReview == InitReview /\ [][NextReview]_vars

-----------------------------------------------------------------------------
(* Social login: MockMPCCoreKit *)

\* faulty variants of the mock login: the status is not set, or always LOGGED_IN
loginWithOauth_KeepsStatus(k) ==
    [k EXCEPT !.userInfo = fixture.userInfoAfterLogin]

loginWithOauth_AlwaysLoggedIn(k) ==
    [k EXCEPT !.status = "LOGGED_IN", !.userInfo = fixture.userInfoAfterLogin]

\* the setTimeout callback of loginWithOauth: the mock k after it ran
loginWithOauth(k) ==
    [k EXCEPT !.status = fixture.stateAfterLogin,
              !.userInfo = fixture.userInfoAfterLogin]

\* faulty variant: any factor key logs in
inputFactorKey_AcceptsAnyKey(k, factorKey) ==
    [k EXCEPT !.status = "LOGGED_IN"]

\* inputFactorKey(factorKey): the mock k after the call. With another key the
\* mock makes a rejected promise it does not return, so the caller's await goes
\* on with the status unchanged.
inputFactorKey(k, factorKey) ==
    IF factorKey = fixture.expectedFactorKey
    THEN [k EXCEPT !.status = "LOGGED_IN"]
    ELSE k

\* commitChanges = jest.fn(): the call is counted
commitChanges == [mockCalls EXCEPT !.commitChanges = @ + 1]

\* mockOnConnect = jest.fn(): the call is counted
mockOnConnect == [mockCalls EXCEPT !.onConnect = @ + 1]

-----------------------------------------------------------------------------
(* Social login: SocialWalletService *)

\* this.walletState = s
SetWalletState(s) ==
    /\ walletState' = s
    /\ stateTrace' = IF s = walletState THEN stateTrace ELSE Append(stateTrace, s)

\* the running call finishes with the value v
Return(v) ==
    /\ task' = Idle
    /\ returned' = Append(returned, [op |-> task.name, value |-> v])

\* what each method resolves to: the SDK status, or whether it is LOGGED_IN
ResultOf(name, status) ==
    IF name = "loginAndCreate" THEN status
    ELSE IF status = "LOGGED_IN" THEN "true" ELSE "false"

\* after the factor step, with the SDK status now `status`: a logged-in SDK has
\* its session committed (finalizeLogin); a login that still lacks a share
\* settles in MANUAL_RECOVERY; a password recovery that did not log in gives up
AfterFactor(status) ==
    IF status = "LOGGED_IN"
    THEN /\ mockCalls' = commitChanges
         /\ task' = [task EXCEPT !.pc = "awaitCommit"]
         /\ UNCHANGED <<walletState, stateTrace, returned>>
    ELSE /\ IF task.name = "loginAndCreate"
            THEN SetWalletState("MANUAL_RECOVERY")
            ELSE UNCHANGED <<walletState, stateTrace>>
         /\ Return(ResultOf(task.name, status))
         /\ UNCHANGED mockCalls

\* loginAndCreate(), up to `await loginWithOauth(...)`
loginAndCreate ==
    /\ task = Idle
    /\ Len(opsLog) < MaxOps
    /\ opsLog' = Append(opsLog, "loginAndCreate")
    /\ SetWalletState("AUTHENTICATING")
    /\ loginTimer' = TRUE
    /\ task' = [name |-> "loginAndCreate", pc |-> "awaitLogin"]
    /\ UNCHANGED <<fixture, sdk, mockCalls, returned, factorKeys>>
    /\ UNCHANGED <<signVars, reviewVars, uiVars>>

\* the mock's timer fires, loginWithOauth resolves, and loginAndCreate goes on to
\* its next await: getWebBrowserFactor if a share is required, else finalizeLogin
LoginResolves ==
    /\ loginTimer
    /\ task.pc = "awaitLogin"
    /\ loginTimer' = FALSE
    /\ sdk' = loginWithOauth(sdk)
    /\ factorKeys' = {}
    /\ IF sdk'.status = "REQUIRED_SHARE"
       THEN /\ task' = [task EXCEPT !.pc = "awaitDeviceFactor"]
            /\ UNCHANGED <<walletState, stateTrace, returned, mockCalls>>
       ELSE AfterFactor(sdk'.status)
    /\ UNCHANGED <<fixture, opsLog>>
    /\ UNCHANGED <<signVars, reviewVars, uiVars>>

\* getWebBrowserFactor resolved: a device factor found is input to the SDK
DeviceFactorResolves ==
    /\ task.pc = "awaitDeviceFactor"
    /\ IF fixture.deviceFactor # NoFactor
       THEN /\ sdk' = inputFactorKey(sdk, BN(fixture.deviceFactor))
            /\ factorKeys' = factorKeys \cup {BN(fixture.deviceFactor)}
            /\ task' = [task EXCEPT !.pc = "awaitInputFactorKey"]
            /\ UNCHANGED <<walletState, stateTrace, returned, mockCalls>>
       ELSE /\ AfterFactor(sdk.status)
            /\ UNCHANGED <<sdk, factorKeys>>
    /\ UNCHANGED <<fixture, loginTimer, opsLog>>
    /\ UNCHANGED <<signVars, reviewVars, uiVars>>

\* faulty variant of the security-question mock: no answer is refused
recoverFactor_NeverThrows(password) ==
    [threw |-> FALSE, value |-> fixture.passwordFactor]

\* TssSecurityQuestion.recoverFactor as the tests mock it: it throws
\* Error('Invalid answer') on a wrong answer and resolves to the factor otherwise
recoverFactor(password) ==
    IF password = "right"
    THEN [threw |-> FALSE, value |-> fixture.passwordFactor]
    ELSE [threw |-> TRUE, value |-> "Invalid answer"]

\* recoverAccountWithPassword(password, false), up to the await of the
\* security-question mechanism
recoverAccountWithPassword ==
    \E password \in Passwords :
        /\ task = Idle
        /\ Len(opsLog) < MaxOps
        /\ opsLog' = Append(opsLog, "recoverAccountWithPassword")
        /\ task' = [name |-> "recoverAccountWithPassword",
                    pc |-> "awaitRecoverFactor", password |-> password]
        /\ UNCHANGED <<fixture, sdk, loginTimer, walletState, mockCalls,
                       returned, stateTrace, factorKeys>>
        /\ UNCHANGED <<signVars, reviewVars, uiVars>>

\* recoverFactor settled: if it threw, the call rejects with its error; otherwise
\* the recovered factor is input to the SDK
RecoverFactorResolves ==
    /\ task.pc = "awaitRecoverFactor"
    /\ LET r == recoverFactor(task.password) IN
       IF r.threw
       THEN /\ Return("Error: " \o r.value)
            /\ UNCHANGED <<sdk, factorKeys>>
       ELSE /\ sdk' = inputFactorKey(sdk, BN(r.value))
            /\ factorKeys' = factorKeys \cup {BN(r.value)}
            /\ task' = [task EXCEPT !.pc = "awaitInputFactorKey"]
            /\ UNCHANGED returned
    /\ UNCHANGED <<fixture, loginTimer, walletState, mockCalls, opsLog, stateTrace>>
    /\ UNCHANGED <<signVars, reviewVars, uiVars>>

\* the await of inputFactorKey is over
InputFactorKeyResolves ==
    /\ task.pc = "awaitInputFactorKey"
    /\ AfterFactor(sdk.status)
    /\ UNCHANGED <<fixture, sdk, loginTimer, opsLog, factorKeys>>
    /\ UNCHANGED <<signVars, reviewVars, uiVars>>

\* commitChanges resolved: the wallet is READY, the connected callback is called,
\* and the call returns
CommitResolves ==
    /\ task.pc = "awaitCommit"
    /\ SetWalletState("READY")
    /\ mockCalls' = mockOnConnect
    /\ Return(ResultOf(task.name, sdk.status))
    /\ UNCHANGED <<fixture, sdk, loginTimer, opsLog, factorKeys>>
    /\ UNCHANGED <<signVars, reviewVars, uiVars>>

-----------------------------------------------------------------------------
(* Specification of the social login service, one call at a time *)

InitSocial ==
    /\ FormsUnused
    /\ \E f \in Fixtures : ServiceConstructed(f)
    /\ UiUnused

NextSocial ==
    \/ loginAndCreate
    \/ LoginResolves
    \/ DeviceFactorResolves
    \/ recoverAccountWithPassword
    \/ RecoverFactorResolves
    \/ InputFactorKeyResolves
    \/ CommitResolves

SpecSocial == InitSocial /\ [][NextSocial]_vars

-----------------------------------------------------------------------------
(* Properties *)

\* the effects of the submit with the given id, in order, and their names
EffectsOf(id) == SelectSeq(effects, LAMBDA e : e.id = id)
Ops(es) == [i \in 1..Len(es) |-> es[i].op]
CallIds == 1..Len(calls)
LastClick == IF clickLog = <<>> THEN "none" ELSE clickLog[Len(clickLog)]
OtherwiseSubmittable == safeTx # NoTx /\ ~disableSubmit /\ isOwner /\ isOk

\* C1: the rendered Submit button is disabled exactly when there is no safeTx, or
\* isSubmittable is false, or disableSubmit is set, or the account is not an owner,
\* or the wallet check fails; in particular it is disabled while a signTx call is
\* outstanding.
C1_ButtonDisabledExactly ==
    /\ view.buttonDisabled =
          (safeTx = NoTx \/ ~isSubmittable \/ disableSubmit \/ ~isOwner \/ ~isOk)
    /\ (PendingCalls # {} => view.buttonDisabled)

\* C1 witness: only the submission in flight keeps the button disabled.
C1_Witness ==
    PendingCalls # {} /\ OtherwiseSubmittable /\ view.buttonDisabled

\* C2 as stated: every click on Submit made while the account is not an owner
\* starts no signTx call and leaves the not-an-owner message on screen.
C2_Original ==
    [][(Len(clickLog') = Len(clickLog) + 1 /\ ~isOwner)
          => (calls' = calls /\ view'.message = "notOwner")]_vars

\* C2 amended: every click on Submit made while the account is not an owner is
\* blocked (no signTx call, no other effect), and the not-an-owner message is on
\* screen exactly when isSubmittable is true.
C2_NonOwnerClickBlocked ==
    [][(Len(clickLog') = Len(clickLog) + 1 /\ ~isOwner)
          => /\ clickLog' = Append(clickLog, "blocked")
             /\ calls' = calls
             /\ effects' = effects
             /\ (view'.message = "notOwner") = isSubmittable]_vars

\* C2 witness: a non-owner's click was blocked and the message is shown.
C2_Witness ==
    LastClick = "blocked" /\ ~isOwner /\ view.message = "notOwner" /\ calls = <<>>

\* C3: a submit whose signTx resolved made exactly these calls, in this order:
\* setIsSubmittable(false), setSubmitError(undefined), signTx(safeTx, txId, origin),
\* setTxFlow(undefined), onSubmit(); and no error is held while a call is pending.
C3_ResolvedSubmitOrder ==
    /\ \A id \in CallIds : calls[id].status = "resolved" =>
          LET es == EffectsOf(id) IN
          /\ Len(es) >= 5
          /\ Ops(SubSeq(es, 1, 5)) =
                <<"setIsSubmittable", "setSubmitError", "signTx", "setTxFlow", "onSubmit">>
          /\ es[2].arg = "undefined"
          /\ es[3].arg = calls[id].tx \o "," \o txId \o "," \o origin
          /\ es[4].arg = "undefined"
          /\ \A op \in {"signTx", "setTxFlow", "onSubmit"} :
                Cardinality({i \in 1..Len(es) : es[i].op = op}) = 1
    /\ (PendingCalls # {} => submitError = NoError)

\* C3 witness: a submit resolved after an earlier one had left an error.
C3_Witness ==
    \E i, j \in CallIds :
        i < j /\ calls[i].status = "rejected" /\ calls[j].status = "resolved"

\* C4: a submit whose signTx rejected logged the error under 804, set
\* isSubmittable back to true and submitError to the rejection, and called neither
\* setTxFlow nor onSubmit; when it is the latest submit the form is submittable
\* again, and the button is enabled if nothing else disables it.
C4_RejectedSubmitRecovers ==
    \A id \in CallIds : calls[id].status = "rejected" =>
        LET es == EffectsOf(id) IN
        /\ Ops(es) = <<"setIsSubmittable", "setSubmitError", "signTx",
                       "logError", "setIsSubmittable", "setSubmitError">>
        /\ es[4].arg = "804:" \o calls[id].error
        /\ es[5].arg = "true"
        /\ es[6].arg = calls[id].error
        /\ calls[id].error \in ErrorMessages
        /\ (id = Len(calls) =>
               /\ isSubmittable
               /\ submitError = calls[id].error
               /\ (OtherwiseSubmittable => ~view.buttonDisabled))

\* C4 witness: after a rejected submit a later submit was made.
C4_Witness ==
    \E id \in CallIds : calls[id].status = "rejected" /\ id < Len(calls)

\* C5: at most one signTx call of the form is outstanding at any time.
C5_OneSignTxAtATime ==
    Cardinality(PendingCalls) <= 1

\* C5 witness: a click was blocked for no reason but the call in flight.
C5_Witness ==
    PendingCalls # {} /\ OtherwiseSubmittable /\ LastClick = "blocked"

\* C6: a change of params cancels no pending build, and whenever a pending build
\* settles, stale or not, the context takes its result: its transaction on
\* success, its error on failure.
C6_LastWriteWins ==
    [][/\ (params' # params =>
              builds \subseteq builds' /\ Cardinality(builds') = Cardinality(builds) + 1)
       /\ \A b \in builds : b \notin builds' =>
              \/ safeTx' = BuildTx(b.inputs) /\ safeTxError' = safeTxError
              \/ safeTxError' \in ErrorMessages /\ safeTx' = safeTx]_vars

\* C6 witness: every build resolved, none failed, and the context holds a
\* transaction built for params that are no longer current.
C6_Witness ==
    /\ builds = {}
    /\ nBuilds > 1
    /\ safeTxError = NoError
    /\ safeTx \notin {NoTx, BuildTx(params)}

\* C7 as stated: the address-book upsert and the analytics events of a
\* confirmation come before its signTx call.
C7_Original ==
    \A i, j \in 1..Len(effects) :
        (/\ effects[i].id = effects[j].id
         /\ effects[i].op = "signTx"
         /\ effects[j].op \in {"upsertAddressBookEntry", "trackEvent"}) => j < i

\* the calls of the confirmation callback for the params p, as op and argument
CallbackCalls(p) ==
    (IF p.newOwner.name # NoName
        THEN <<<<"upsertAddressBookEntry",
                 safe.chainId \o "," \o p.newOwner.address \o "," \o p.newOwner.name>>>>
        ELSE <<>>)
    \o <<<<"trackEvent", "SETUP.THRESHOLD:" \o ToString(safe.threshold)>>,
         <<"trackEvent", "SETUP.OWNERS:" \o ToString(Len(safe.owners))>>,
         <<"trackEvent", IF p.removedOwner = NoOwner THEN "CREATE:owner_add"
                                                     ELSE "CREATE:owner_swap">>>>

\* C7 amended: the transaction is signed first; after signTx resolved the flow is
\* closed and onSubmit runs: the address-book entry (chainId, address, name) is
\* upserted only if a name was supplied, then the threshold, owner-count and
\* creation-kind events are emitted in that order. A submit whose signTx has not
\* resolved upserts nothing and emits nothing.
C7_CallbackAfterSigning ==
    \A id \in CallIds :
        LET es == EffectsOf(id)
            cb == CallbackCalls(calls[id].params)
        IN  IF calls[id].status = "resolved"
            THEN /\ Len(es) = 5 + Len(cb)
                 /\ Ops(SubSeq(es, 1, 5)) =
                       <<"setIsSubmittable", "setSubmitError", "signTx",
                         "setTxFlow", "onSubmit">>
                 /\ \A k \in 1..Len(cb) :
                       es[5 + k].op = cb[k][1] /\ es[5 + k].arg = cb[k][2]
            ELSE \A k \in 1..Len(es) :
                       es[k].op \notin {"onSubmit", "upsertAddressBookEntry", "trackEvent"}

\* C7 witness: a confirmed owner swap with a named new owner has been signed.
C7_Witness ==
    \E id \in CallIds :
        /\ calls[id].status = "resolved"
        /\ calls[id].params.newOwner.name # NoName
        /\ calls[id].params.removedOwner # NoOwner

\* the status the SDK had after the last login resolved: INITIALIZED if none has
StatusAfterLogin ==
    IF sdk.userInfo = NoUserInfo THEN "INITIALIZED" ELSE fixture.stateAfterLogin

\* C8: on a fresh service whose SDK reports LOGGED_IN after login, one call of
\* loginAndCreate takes the wallet state through NOT_INITIALIZED, AUTHENTICATING,
\* READY and resolves to LOGGED_IN; neither mock is called while the login is
\* pending, the connected callback is not called before the call resolves, and
\* once it has resolved the connected callback and commitChanges have each been
\* called exactly once.
C8_SingleFactorLogin ==
    (fixture.stateAfterLogin = "LOGGED_IN" /\ opsLog = <<"loginAndCreate">>) =>
        /\ (loginTimer =>
               /\ walletState = "AUTHENTICATING"
               /\ stateTrace = <<"NOT_INITIALIZED", "AUTHENTICATING">>
               /\ mockCalls = [onConnect |-> 0, commitChanges |-> 0])
        /\ (returned = <<>> => mockCalls.onConnect = 0 /\ mockCalls.commitChanges <= 1)
        /\ (returned # <<>> =>
               /\ returned = <<[op |-> "loginAndCreate", value |-> "LOGGED_IN"]>>
               /\ walletState = "READY"
               /\ stateTrace = <<"NOT_INITIALIZED", "AUTHENTICATING", "READY">>
               /\ mockCalls = [onConnect |-> 1, commitChanges |-> 1])

\* C8 witness: the single-factor login has resolved.
C8_Witness ==
    /\ fixture.stateAfterLogin = "LOGGED_IN"
    /\ opsLog = <<"loginAndCreate">>
    /\ returned # <<>>

\* C9: the wallet state is READY only if the SDK status is LOGGED_IN, and, unless
\* the last login itself gave LOGGED_IN, only if the expected factor key has been
\* input since.
C9_ReadyOnlyWhenLoggedIn ==
    walletState = "READY" =>
        /\ sdk.status = "LOGGED_IN"
        /\ (StatusAfterLogin # "LOGGED_IN" => fixture.expectedFactorKey \in factorKeys)

\* C9 witness: READY was reached from MANUAL_RECOVERY by a password recovery.
C9_Witness ==
    /\ walletState = "READY"
    /\ fixture.stateAfterLogin = "REQUIRED_SHARE"
    /\ opsLog = <<"loginAndCreate", "recoverAccountWithPassword">>
    /\ stateTrace =
          <<"NOT_INITIALIZED", "AUTHENTICATING", "MANUAL_RECOVERY", "READY">>

\* C10: on a fresh service whose SDK reports REQUIRED_SHARE after login and with
\* no device factor, one call of loginAndCreate never calls the connected callback
\* or commitChanges, never makes the wallet READY, and resolves to REQUIRED_SHARE
\* with the wallet state settled in MANUAL_RECOVERY.
C10_ManualRecoveryWithoutDeviceFactor ==
    (/\ fixture.stateAfterLogin = "REQUIRED_SHARE"
     /\ fixture.deviceFactor = NoFactor
     /\ opsLog = <<"loginAndCreate">>) =>
        /\ mockCalls = [onConnect |-> 0, commitChanges |-> 0]
        /\ walletState # "READY"
        /\ (returned # <<>> =>
               /\ returned = <<[op |-> "loginAndCreate", value |-> "REQUIRED_SHARE"]>>
               /\ walletState = "MANUAL_RECOVERY"
               /\ stateTrace =
                     <<"NOT_INITIALIZED", "AUTHENTICATING", "MANUAL_RECOVERY">>)

\* C10 witness: the login without a device factor has resolved.
C10_Witness ==
    /\ fixture.stateAfterLogin = "REQUIRED_SHARE"
    /\ fixture.deviceFactor = NoFactor
    /\ opsLog = <<"loginAndCreate">>
    /\ returned # <<>>

\* whether the last finished service call rejected with the mechanism's error
LastRejected ==
    returned # <<>> /\ returned[Len(returned)] =
        [op |-> "recoverAccountWithPassword", value |-> "Error: Invalid answer"]

\* C11: a recoverAccountWithPassword call with a wrong answer ends by rejecting
\* with the error of the security-question mechanism, and that step changes
\* neither the wallet state nor the SDK and calls neither mock.
C11_WrongPasswordRejects ==
    [][(/\ task.name = "recoverAccountWithPassword"
        /\ task.password = "wrong"
        /\ task' # task)
          => /\ task' = Idle
             /\ returned' = Append(returned, [op |-> "recoverAccountWithPassword",
                                              value |-> "Error: Invalid answer"])
             /\ walletState' = walletState
             /\ stateTrace' = stateTrace
             /\ sdk' = sdk
             /\ mockCalls' = mockCalls]_vars

\* C11 witness: a wrong answer given in MANUAL_RECOVERY was rejected, and the
\* wallet is still in MANUAL_RECOVERY with no mock called.
C11_Witness ==
    /\ LastRejected
    /\ opsLog = <<"loginAndCreate", "recoverAccountWithPassword">>
    /\ walletState = "MANUAL_RECOVERY"
    /\ mockCalls = [onConnect |-> 0, commitChanges |-> 0]

\* C16: once a signTx call of the form has resolved, isSubmittable is false and
\* stays false: the Submit button is disabled, no call is pending, and the
\* resolved call is the last one the form ever made.
C16_NoSubmitAfterSuccess ==
    \A id \in CallIds : calls[id].status = "resolved" =>
        /\ ~isSubmittable
        /\ view.buttonDisabled
        /\ PendingCalls = {}
        /\ id = Len(calls)

\* C16 witness: after a success the safeTx prop changed, nothing else disables
\* the button, and a click was blocked.
C16_Witness ==
    /\ calls # <<>>
    /\ calls[Len(calls)].status = "resolved"
    /\ safeTx # calls[Len(calls)].tx
    /\ OtherwiseSubmittable
    /\ LastClick = "blocked"

\* ---- Navigation

Mounted == {i \in Navigations : nav[i].mounted}

\* C12: in every rendered Navigation the link of the history item leads to the
\* queue route exactly when the transaction queue page holds a transaction or
\* the recovery queue holds one, and to the history route otherwise; the link
\* of every other item leads to the item's own href.
C12_HistoryLinkFollowsQueues ==
    \A i \in Mounted :
        /\ Len(nav[i].view) = Len(navItems)
        /\ \A k \in 1..Len(nav[i].view) :
               LET item    == nav[i].view[k]
                   hooks   == nav[i].hooks
                   pending == \/ hooks.txQueue.hasPage /\ hooks.txQueue.results > 0
                              \/ hooks.recoveryQueue > 0
               IN  /\ item.key = navItems[k].href
                   /\ item.pathname =
                          IF item.key = AppRoutes.transactions.history /\ pending
                          THEN AppRoutes.transactions.queue
                          ELSE item.key

\* a Navigation whose transaction queue has not loaded and whose recovery
\* queue holds a transaction links the history item to the queue
C12_Witness ==
    \E i \in Mounted :
        /\ ~nav[i].hooks.txQueue.hasPage
        /\ nav[i].hooks.recoveryQueue > 0
        /\ \E k \in 1..Len(nav[i].view) :
               /\ nav[i].view[k].key = AppRoutes.transactions.history
               /\ nav[i].view[k].pathname = AppRoutes.transactions.queue

\* C13: after any sequence of renders, by any of the Navigations that share
\* navItems, the badge a Navigation has rendered on the settings item is true
\* exactly when the Safe of that render is OUTDATED, and false otherwise.
C13_BadgeFollowsRenderedSafe ==
    \A i \in Mounted :
        /\ \E k \in 1..Len(nav[i].view) : nav[i].view[k].key = AppRoutes.settings.setup
        /\ \A k \in 1..Len(nav[i].view) :
               nav[i].view[k].key = AppRoutes.settings.setup =>
                   nav[i].view[k].badge =
                       IF nav[i].hooks.safe.implementationVersionState
                              = ImplementationVersionState.OUTDATED
                       THEN "true"
                       ELSE "false"

\* two Navigations have rendered for Safes of different states, the one for
\* the outdated Safe first: its badge is still true, the shared item's is false
C13_Witness ==
    /\ nav["sidebar"].mounted /\ nav["drawer"].mounted
    /\ nav["sidebar"].hooks.safe.implementationVersionState
           = ImplementationVersionState.OUTDATED
    /\ nav["drawer"].hooks.safe.implementationVersionState
           = ImplementationVersionState.UP_TO_DATE
    /\ nav["sidebar"].view[3].badge = "true"
    /\ nav["drawer"].view[3].badge = "false"
    /\ navItems[3].badge = "false"

\* ---- ChooseRecoveryMethodModal

\* the calls the handlers made for the user's action number id
ModalCalls(id) ==
    LET IsCall(e) == e.id = id /\ e.op \notin UserOps
    IN  SelectSeq(modalLog, IsCall)

\* the method selected when the entry at position k was logged
SelectionAt(k) ==
    LET selects == {j \in 1..k : modalLog[j].op = "select"}
    IN  IF selects = {}
        THEN RecoveryMethod.SelfCustody
        ELSE modalLog[CHOOSE j \in selects : \A l \in selects : l <= j].arg

\* C14: the selection starts as self-custody; a confirm with self-custody
\* selected calls setTxFlow with the recovery setup flow and then onClose,
\* each once; a confirm with a partner selected opens that partner's waitlist
\* link and calls neither setTxFlow nor onClose.
C14_ConfirmFollowsSelection ==
    /\ currentType = SelectionAt(Len(modalLog))
    /\ \A k \in 1..Len(modalLog) :
           modalLog[k].op = "confirm" =>
               /\ modalLog[k].arg = SelectionAt(k)
               /\ ModalCalls(modalLog[k].id) =
                      IF modalLog[k].arg = RecoveryMethod.SelfCustody
                      THEN <<ModalEntry(modalLog[k].id, "setTxFlow", "UpsertRecoveryFlow"),
                             ModalEntry(modalLog[k].id, "onClose", "")>>
                      ELSE IF modalLog[k].arg = RecoveryMethod.Sygnum
                      THEN <<ModalEntry(modalLog[k].id, "openInNewTab",
                                        SYGNUM_WAITLIST_LINK)>>
                      ELSE <<ModalEntry(modalLog[k].id, "openInNewTab",
                                        COINCOVER_WAITLIST_LINK)>>

\* the user confirmed self-custody, then selected Coincover and confirmed again
C14_Witness ==
    /\ Len(modalLog) = 7
    /\ modalLog[1] = ModalEntry(1, "confirm", RecoveryMethod.SelfCustody)
    /\ modalLog[4].op = "select"
    /\ modalLog[6] = ModalEntry(3, "confirm", RecoveryMethod.Coincover)
    /\ modalLog[7].arg = COINCOVER_WAITLIST_LINK

\* ---- AddressBookInput

\* C15: the "unknown address" affordance is shown exactly when the typed value
\* matches no address-book entry and canAdd is set, and the dialog it opens is
\* pre-filled with the typed address.
C15_Original ==
    /\ abiView.unknownAddress = (abi.canAdd /\ ~hasVisibleOptions(abi))
    /\ \A k \in 1..Len(abiView.entryDialog) :
           abiView.entryDialog[k].address = abi.addressValue

====
